---------------------------- MODULE Spec2Model ----------------------------
(***************************************************************************)
(* Telemetry bootstrap and graceful-shutdown coordinator of the            *)
(* axum_otel_tempo service (src/src/main.rs, src/src/startup.rs).          *)
(*                                                                         *)
(* The main task runs the bootstrap sequence, binds the listener and then  *)
(* drives the server future; every accepted connection is a task of its    *)
(* own on the multi-threaded runtime, so request steps interleave freely   *)
(* with the steps of shutdown_signal().                                    *)
(***************************************************************************)
EXTENDS Naturals, Integers, Sequences, FiniteSets

\* ------------------------------------------------------------- bounds ---
MaxReq == 2          \* connections a run may accept
MaxSignals == 2      \* signals the environment may deliver in a run
MaxBootCalls == 3    \* bootstrap calls in a run of SpecBoot
TickMs == 50         \* granularity of the passage of time

\* ---------------------------------------------------------- constants ---
DelayMs == 100
Body == "<h1>Hi again world</h1>"
RequiredVars == {"OtelTempoUserName", "OtelTempoPassword", "OtelTempoEndpoint"}

Req == 1..MaxReq
Sig == {"ctrl_c", "terminate"}

\* tracing levels, most severe first
INFO == 3
DEBUG == 4
TRACE == 5

VARIABLES
    unix,          \* platform has the termination signal (cfg(unix))
    env,           \* environment variables that are set
    rustLog,       \* the verbosity filter variable: "unset", "invalid" or a directive
    pc,            \* position of main
    bound,         \* the TCP listener is bound
    subscriber,    \* who installed the global subscriber, "none" if nobody
    provider,      \* whose pipeline is the global tracer provider, "none" = no-op
    bootLog,       \* outcome of every bootstrap call so far
    listeners,     \* signal listeners that are installed
    delivered,     \* signals delivered by the environment, per kind
    pending,       \* listeners that have a signal to report
    sigpc,         \* position of shutdown_signal()
    winner,        \* the select! branch that completed
    warnCount,     \* executions of the tracing::warn! of shutdown_signal
    shutdownCount, \* executions of shutdown_tracer_provider
    flushResult,   \* outcome of the flush made by the pipeline shutdown
    req,           \* per connection: phase, remaining sleep, response
    spans          \* per connection: the spans created, in creation order

vars == <<unix, env, rustLog, pc, bound, subscriber, provider, bootLog, listeners,
          delivered, pending, sigpc, winner, warnCount, shutdownCount,
          flushResult, req, spans>>

sigVars == <<listeners, delivered, pending, sigpc, winner, warnCount,
             shutdownCount, flushResult>>
reqVars == <<req, spans>>

\* ------------------------------------------------------------ filter ----
\* main.rs:104-106: the directive of the environment, or the default string
DefaultFilter ==
    [axum_otel_tempo |-> INFO, tower_http |-> DEBUG, axum_rejection |-> TRACE]

EnvFilter(rl) ==
    IF rl \in {"unset", "invalid"}
    THEN DefaultFilter
    ELSE [axum_otel_tempo |-> INFO, tower_http |-> INFO, axum_rejection |-> INFO]

\* the request span is made by TraceLayer::new_for_http (tower_http, DEBUG);
\* handler and sub_function are #[instrument] (this crate, INFO)
SpanTarget(name) == IF name = "request" THEN "tower_http" ELSE "axum_otel_tempo"
SpanLevel(name) == IF name = "request" THEN DEBUG ELSE INFO

SpanEnabled(name, rl) ==
    LET f == EnvFilter(rl)
    IN  IF SpanTarget(name) = "tower_http"
        THEN SpanLevel(name) <= f.tower_http
        ELSE SpanLevel(name) <= f.axum_otel_tempo

\* --------------------------------------------------------- bootstrap ----
load_settings_lenient(e) == TRUE

\* main.rs:146-150: each env::var(..).expect(..) panics when the variable is unset
load_settings(e) == RequiredVars \subseteq e

\* main.rs:109: the first installation wins, a later one is refused
set_global_default(cur, who) ==
    IF cur = "none" THEN [ok |-> TRUE, sub |-> who]
                    ELSE [ok |-> FALSE, sub |-> cur]

expect_ignored(r) == FALSE

\* main.rs:110: .expect("Failed to set global default tracing")
expect_fatal(r) == ~r.ok

\* main.rs:65-111: install_batch(..).unwrap() makes the pipeline the global
\* tracer provider, then the subscriber is installed
init_otel_telemetry(who, pipelineOk, curSub, curProv) ==
    IF ~pipelineOk
    THEN [result |-> "pipeline_failed", sub |-> curSub, prov |-> curProv]
    ELSE LET r == set_global_default(curSub, who)
         IN  IF expect_fatal(r)
             THEN [result |-> "subscriber_failed", sub |-> r.sub, prov |-> who]
             ELSE [result |-> "ok", sub |-> r.sub, prov |-> who]

\* startup.rs:19-23 (and main.rs:33-35): load_settings, then init_otel_telemetry
init(who, e, pipelineOk, curSub, curProv) ==
    IF ~load_settings(e)
    THEN [result |-> "env_missing", sub |-> curSub, prov |-> curProv]
    ELSE init_otel_telemetry(who, pipelineOk, curSub, curProv)

\* ------------------------------------------------------------- spans ----
OpenSpanDetached(seq, name, rl) ==
    IF SpanEnabled(name, rl)
    THEN Append(seq, [name |-> name, parent |-> "none", fate |-> "open"])
    ELSE seq

\* a span opened inside the current scope: its parent is the innermost span
\* that is open, none when the enclosing spans are filtered out
OpenSpan(seq, name, rl) ==
    IF SpanEnabled(name, rl)
    THEN Append(seq, [name |-> name,
                      parent |-> IF seq = <<>> THEN "none" ELSE seq[Len(seq)].name,
                      fate |-> "open"])
    ELSE seq

\* a span that closes is handed to the batch processor of the live provider;
\* with the provider gone the tracer has nothing to hand it to
CloseSpan(seq, name, prov) ==
    [i \in DOMAIN seq |->
        IF seq[i].name = name /\ seq[i].fate = "open"
        THEN [seq[i] EXCEPT !.fate = IF prov # "none" THEN "buffered" ELSE "dropped"]
        ELSE seq[i]]

\* the batch processor hands every buffered span to the exporter
ExportAll(sp) ==
    [r \in Req |->
        [i \in DOMAIN sp[r] |->
            IF sp[r][i].fate = "buffered"
            THEN [sp[r][i] EXCEPT !.fate = "exported"]
            ELSE sp[r][i]]]

Buffered(sp) == {r \in Req : \E i \in DOMAIN sp[r] : sp[r][i].fate = "buffered"}

\* ------------------------------------------------------------ states ----
Dead == {"exited", "panicked", "killed"}
NoResponse == [status |-> 0, body |-> ""]
InFlight == {r \in Req : req[r].phase \notin {"none", "responded"}}

Running == pc = "serving" /\ sigpc = "waiting"
ShutdownRequested == pc = "serving" /\ sigpc \in {"fired", "warned", "flushing"}
Draining == pc = "serving" /\ sigpc = "done"
Terminated == pc = "exited"

Total(d) == d["ctrl_c"] + d["terminate"]

Init ==
    /\ unix \in BOOLEAN
    /\ env \in SUBSET RequiredVars
    /\ rustLog \in {"unset", "invalid", "info"}
    /\ pc = "init_otel_telemetry"
    /\ bound = FALSE
    /\ subscriber = "none"
    /\ provider = "none"
    /\ bootLog = <<>>
    /\ listeners = {}
    /\ delivered = [s \in Sig |-> 0]
    /\ pending = {}
    /\ sigpc = "unpolled"
    /\ winner = "none"
    /\ warnCount = 0
    /\ shutdownCount = 0
    /\ flushResult = "none"
    /\ req = [r \in Req |-> [phase |-> "none", sleepLeft |-> 0, response |-> NoResponse]]
    /\ spans = [r \in Req |-> <<>>]

\* ------------------------------------------------------------- main -----
\* main.rs:33-35
MainInit ==
    /\ pc = "init_otel_telemetry"
    /\ \E pipelineOk \in BOOLEAN :
         LET r == init("main", env, pipelineOk, subscriber, provider)
         IN  /\ subscriber' = r.sub
             /\ provider' = r.prov
             /\ bootLog' = Append(bootLog, [fn |-> "main", result |-> r.result])
             /\ pc' = IF r.result = "ok" THEN "bind" ELSE "panicked"
    /\ UNCHANGED <<unix, env, rustLog, bound>>
    /\ UNCHANGED sigVars
    /\ UNCHANGED reqVars

\* main.rs:43-47
MainBind ==
    /\ pc = "bind"
    /\ \E ok \in BOOLEAN :
         /\ bound' = ok
         /\ pc' = IF ok THEN "serve" ELSE "panicked"
    /\ UNCHANGED <<unix, env, rustLog, subscriber, provider, bootLog>>
    /\ UNCHANGED sigVars
    /\ UNCHANGED reqVars

ServeLenient ==
    /\ pc = "serve"
    /\ \E okC \in BOOLEAN, okT \in {b \in BOOLEAN : unix \/ b} :
         listeners' = (IF okC THEN {"ctrl_c"} ELSE {})
                        \cup (IF unix /\ okT THEN {"terminate"} ELSE {})
    /\ pc' = "serving"
    /\ sigpc' = "waiting"
    /\ UNCHANGED <<unix, env, rustLog, bound, subscriber, provider, bootLog>>
    /\ UNCHANGED <<delivered, pending, winner, warnCount, shutdownCount, flushResult>>
    /\ UNCHANGED reqVars

\* main.rs:46-50 with 114-134: the first poll of the server polls the
\* shutdown future before it accepts anything, and that poll installs the
\* listeners
Serve ==
    /\ pc = "serve"
    /\ \E okC \in BOOLEAN, okT \in {b \in BOOLEAN : unix \/ b} :
         /\ listeners' = (IF okC THEN {"ctrl_c"} ELSE {})
                            \cup (IF unix /\ okT THEN {"terminate"} ELSE {})
         /\ IF okC /\ okT
            THEN pc' = "serving" /\ sigpc' = "waiting"
            ELSE pc' = "panicked" /\ sigpc' = sigpc
    /\ UNCHANGED <<unix, env, rustLog, bound, subscriber, provider, bootLog>>
    /\ UNCHANGED <<delivered, pending, winner, warnCount, shutdownCount, flushResult>>
    /\ UNCHANGED reqVars

MainReturnNoDrain ==
    /\ Draining
    /\ pc' = "exited"
    /\ UNCHANGED <<unix, env, rustLog, bound, subscriber, provider, bootLog>>
    /\ UNCHANGED sigVars
    /\ UNCHANGED reqVars

\* main.rs:50-52: the server future resolves once it has drained
MainReturn ==
    /\ Draining
    /\ InFlight = {}
    /\ pc' = "exited"
    /\ UNCHANGED <<unix, env, rustLog, bound, subscriber, provider, bootLog>>
    /\ UNCHANGED sigVars
    /\ UNCHANGED reqVars

\* ---------------------------------------------------- shutdown_signal ---
\* the environment delivers a signal; without a listener the default
\* disposition ends the process
Signal(s) ==
    /\ pc \notin Dead
    /\ Total(delivered) < MaxSignals
    /\ s = "terminate" => unix
    /\ delivered' = [delivered EXCEPT ![s] = @ + 1]
    /\ IF s \in listeners
       THEN /\ pending' = IF sigpc = "waiting" THEN pending \cup {s} ELSE pending
            /\ pc' = pc
       ELSE /\ pending' = pending
            /\ pc' = "killed"
    /\ UNCHANGED <<unix, env, rustLog, bound, subscriber, provider, bootLog>>
    /\ UNCHANGED <<listeners, sigpc, winner, warnCount, shutdownCount, flushResult>>
    /\ UNCHANGED reqVars

\* main.rs:128-129: without cfg(unix) the second branch is pending forever
TerminateReady == unix /\ "terminate" \in pending

CtrlCReady == "ctrl_c" \in pending

ReadyBranches ==
    (IF CtrlCReady THEN {"ctrl_c"} ELSE {}) \cup (IF TerminateReady THEN {"terminate"} ELSE {})

SelectEach ==
    /\ pc = "serving"
    /\ sigpc \in {"waiting", "done"}
    /\ \E b \in ReadyBranches :
         /\ winner' = b
         /\ pending' = pending \ {b}
    /\ sigpc' = "fired"
    /\ UNCHANGED <<unix, env, rustLog, pc, bound, subscriber, provider, bootLog>>
    /\ UNCHANGED <<listeners, delivered, warnCount, shutdownCount, flushResult>>
    /\ UNCHANGED reqVars

\* main.rs:131-134: the first branch to complete wins, the other is dropped
Select ==
    /\ Running
    /\ \E b \in ReadyBranches : winner' = b
    /\ pending' = {}
    /\ sigpc' = "fired"
    /\ UNCHANGED <<unix, env, rustLog, pc, bound, subscriber, provider, bootLog>>
    /\ UNCHANGED <<listeners, delivered, warnCount, shutdownCount, flushResult>>
    /\ UNCHANGED reqVars

\* main.rs:136
Warn ==
    /\ pc = "serving"
    /\ sigpc = "fired"
    /\ warnCount' = warnCount + 1
    /\ sigpc' = "warned"
    /\ UNCHANGED <<unix, env, rustLog, pc, bound, subscriber, provider, bootLog>>
    /\ UNCHANGED <<listeners, delivered, pending, winner, shutdownCount, flushResult>>
    /\ UNCHANGED reqVars

ShutdownBeforeWarn ==
    /\ pc = "serving"
    /\ sigpc = "fired"
    /\ provider' = "none"
    /\ shutdownCount' = shutdownCount + 1
    /\ sigpc' = "flushing"
    /\ UNCHANGED <<unix, env, rustLog, pc, bound, subscriber, bootLog>>
    /\ UNCHANGED <<listeners, delivered, pending, winner, warnCount, flushResult>>
    /\ UNCHANGED reqVars

ShutdownNoWait ==
    /\ pc = "serving"
    /\ sigpc = "warned"
    /\ provider' = "none"
    /\ shutdownCount' = shutdownCount + 1
    /\ sigpc' = "done"
    /\ UNCHANGED <<unix, env, rustLog, pc, bound, subscriber, bootLog>>
    /\ UNCHANGED <<listeners, delivered, pending, winner, warnCount, flushResult>>
    /\ UNCHANGED reqVars

\* main.rs:137: the global provider is replaced by the no-op provider and
\* the old one starts its shutdown
ShutdownTracerProvider ==
    /\ pc = "serving"
    /\ sigpc = "warned"
    /\ provider' = "none"
    /\ shutdownCount' = shutdownCount + 1
    /\ sigpc' = "flushing"
    /\ UNCHANGED <<unix, env, rustLog, pc, bound, subscriber, bootLog>>
    /\ UNCHANGED <<listeners, delivered, pending, winner, warnCount, flushResult>>
    /\ UNCHANGED reqVars

\* main.rs:137-138: the shutdown blocks until the processor has flushed its
\* buffer (or the export timed out); then shutdown_signal() returns and the
\* server starts to drain
FlushDone ==
    /\ pc = "serving"
    /\ sigpc = "flushing"
    /\ \E outcome \in {"flushed", "timed_out"} : flushResult' = outcome
    /\ spans' = ExportAll(spans)
    /\ sigpc' = "done"
    /\ UNCHANGED <<unix, env, rustLog, pc, bound, subscriber, provider, bootLog>>
    /\ UNCHANGED <<listeners, delivered, pending, winner, warnCount, shutdownCount>>
    /\ UNCHANGED req

\* the background task of install_batch (main.rs:98) exports on its timer
ExportBatch ==
    /\ pc = "serving"
    /\ provider # "none"
    /\ Buffered(spans) # {}
    /\ spans' = ExportAll(spans)
    /\ UNCHANGED <<unix, env, rustLog, pc, bound, subscriber, provider, bootLog>>
    /\ UNCHANGED sigVars
    /\ UNCHANGED req

\* ---------------------------------------------------------- requests ----
\* main.rs:46-49: connections are accepted only while the shutdown future
\* is pending
Accept(r) ==
    /\ Running
    /\ req[r].phase = "none"
    /\ IF r = 1 THEN TRUE ELSE req[r - 1].phase # "none"
    /\ req' = [req EXCEPT ![r].phase = "accepted"]
    /\ UNCHANGED <<unix, env, rustLog, pc, bound, subscriber, provider, bootLog>>
    /\ UNCHANGED sigVars
    /\ UNCHANGED spans

\* main.rs:38-40, 54-61: the middleware opens the request span, handler and
\* sub_function open theirs, and the task suspends in sleep
CallHandler(r) ==
    /\ pc = "serving"
    /\ req[r].phase = "accepted"
    /\ req' = [req EXCEPT ![r].phase = "sleeping", ![r].sleepLeft = DelayMs]
    /\ spans' = [spans EXCEPT ![r] =
                   OpenSpan(OpenSpan(OpenSpan(<<>>, "request", rustLog),
                                     "handler", rustLog),
                            "sub_function", rustLog)]
    /\ UNCHANGED <<unix, env, rustLog, pc, bound, subscriber, provider, bootLog>>
    /\ UNCHANGED sigVars

Sleeping == {r \in Req : req[r].phase = "sleeping" /\ req[r].sleepLeft > 0}

\* time passes for every sleeping task alike
Tick ==
    /\ pc = "serving"
    /\ Sleeping # {}
    /\ req' = [r \in Req |->
                 IF r \in Sleeping
                 THEN [req[r] EXCEPT !.sleepLeft =
                         IF @ > TickMs THEN @ - TickMs ELSE 0]
                 ELSE req[r]]
    /\ UNCHANGED <<unix, env, rustLog, pc, bound, subscriber, provider, bootLog>>
    /\ UNCHANGED sigVars
    /\ UNCHANGED spans

\* main.rs:61: sleep(Duration::from_millis(100)) has elapsed
SleepElapsed(r) == req[r].sleepLeft = 0

\* main.rs:54-63, 38-40: once the sleep has elapsed the task runs to the
\* response in one poll: sub_function returns the body and its span closes,
\* handler wraps it in Html and its span closes, the response goes out and
\* the request span closes
Respond(r) ==
    /\ pc = "serving"
    /\ req[r].phase = "sleeping"
    /\ SleepElapsed(r)
    /\ req' = [req EXCEPT ![r].phase = "responded",
                          ![r].response = [status |-> 200, body |-> Body]]
    /\ spans' = [spans EXCEPT ![r] =
                   CloseSpan(CloseSpan(CloseSpan(@, "sub_function", provider),
                                       "handler", provider),
                             "request", provider)]
    /\ UNCHANGED <<unix, env, rustLog, pc, bound, subscriber, provider, bootLog>>
    /\ UNCHANGED sigVars

Next ==
    \/ MainInit
    \/ MainBind
    \/ Serve
    \/ MainReturn
    \/ \E s \in Sig : Signal(s)
    \/ Select
    \/ Warn
    \/ ShutdownTracerProvider
    \/ FlushDone
    \/ ExportBatch
    \/ \E r \in Req : Accept(r)
    \/ \E r \in Req : CallHandler(r)
    \/ Tick
    \/ \E r \in Req : Respond(r)

Spec == Init /\ [][Next]_vars


\* the scheduler polls every runnable task and timers fire; signals,
\* connections and the progress of startup are up to the environment
FairSpec ==
    /\ Spec
    /\ WF_vars(Select)
    /\ WF_vars(Warn)
    /\ WF_vars(ShutdownTracerProvider)
    /\ WF_vars(FlushDone)
    /\ WF_vars(MainReturn)
    /\ WF_vars(Tick)
    /\ \A r \in Req : WF_vars(CallHandler(r)) /\ WF_vars(Respond(r))

\* ------------------------------------------- sequences of bootstraps ----
InitBoot ==
    /\ Init
    /\ unix = TRUE
    /\ rustLog = "unset"
    /\ env = RequiredVars

\* one bootstrap call, with the environment as it is at that moment
Bootstrap(who) ==
    /\ Len(bootLog) < MaxBootCalls
    /\ \E e \in SUBSET RequiredVars, pipelineOk \in BOOLEAN :
         LET r == init(who, e, pipelineOk, subscriber, provider)
         IN  /\ env' = e
             /\ subscriber' = r.sub
             /\ provider' = r.prov
             /\ bootLog' = Append(bootLog, [fn |-> who, result |-> r.result])
    /\ UNCHANGED <<unix, rustLog, pc, bound>>
    /\ UNCHANGED sigVars
    /\ UNCHANGED reqVars

\* main.rs:33-35
BootMain == Bootstrap("main")

\* startup.rs:19-23
BootStartup == Bootstrap("startup")

NextBoot ==
    \/ BootMain
    \/ BootStartup

SpecBoot == InitBoot /\ [][NextBoot]_vars

\* ============================================================ claims ====
Responded == {r \in Req : req[r].phase = "responded"}
AllSpans == {<<r, i>> : r \in Req, i \in 1..3}
Fates == {spans[x[1]][x[2]].fate : x \in {y \in AllSpans : y[2] \in DOMAIN spans[y[1]]}}

\* C1 (as claimed): the pipeline is shut down only once the server has stopped
\* accepting and every in-flight request has completed; it is never shut
\* down while a request is in flight.
C1_ShutdownOnlyAfterDrain ==
    shutdownCount > 0 => (InFlight = {} /\ (Draining \/ Terminated))

\* C2 (as claimed): at exit every span of every accepted request has been
\* handed to the exporter; none is left unexported.
C2_AllSpansExportedAtExit ==
    Terminated => \A r \in Req : \A i \in DOMAIN spans[r] : spans[r][i].fate = "exported"

\* C3: whatever signals arrive, the select completes once, with a branch whose
\* signal was delivered; the other listener is dropped and later signals
\* change nothing; the warning and the pipeline shutdown each run once; the
\* termination branch never wins without cfg(unix).
C3_Inv ==
    /\ warnCount <= 1
    /\ shutdownCount <= 1
    /\ (winner = "none") <=> (sigpc \in {"unpolled", "waiting"})
    /\ winner # "none" => (delivered[winner] >= 1 /\ pending = {})
    /\ (sigpc \in {"warned", "flushing", "done"}) <=> (warnCount = 1)
    /\ (sigpc \in {"flushing", "done"}) <=> (shutdownCount = 1)
    /\ Terminated => (winner # "none" /\ warnCount = 1 /\ shutdownCount = 1)
    /\ ~unix => winner # "terminate"

\* C3: the properties above hold in every state, and once a branch has won
\* the winner never changes (Running -> ShutdownRequested happens once).
C3_ExactlyOnce ==
    /\ []C3_Inv
    /\ [][winner # "none" => winner' = winner]_vars

C3_Witness ==
    /\ Terminated
    /\ delivered["ctrl_c"] >= 1
    /\ delivered["terminate"] >= 1
    /\ warnCount = 1
    /\ shutdownCount = 1

\* C4 (as claimed): every request produces exactly two spans, the request
\* span and the handler span whose parent is the request span.
C4_ExactlyTwoSpans ==
    \A r \in Responded :
        /\ Len(spans[r]) = 2
        /\ spans[r][1].name = "request"
        /\ spans[r][2].name = "handler" /\ spans[r][2].parent = "request"

\* C4 (amended): under the default filter every request that reached the
\* handler has exactly three spans: the request span, the handler span whose
\* parent is the request span, and the sub_function span whose parent is the
\* handler span.
C4_ThreeNestedSpans ==
    rustLog \in {"unset", "invalid"} =>
        \A r \in Req :
            req[r].phase \in {"sleeping", "responded"} =>
                /\ Len(spans[r]) = 3
                /\ spans[r][1].name = "request" /\ spans[r][1].parent = "none"
                /\ spans[r][2].name = "handler" /\ spans[r][2].parent = "request"
                /\ spans[r][3].name = "sub_function" /\ spans[r][3].parent = "handler"

C4_Witness ==
    /\ rustLog = "unset"
    /\ Responded = Req
    /\ \A r \in Req : Len(spans[r]) = 3

\* C5: wherever the listener is bound or a connection is accepted, the three
\* settings were present and both the pipeline and the subscriber of main
\* were installed.
C5_NoServiceWithoutBootstrap ==
    (bound \/ \E r \in Req : req[r].phase # "none") =>
        /\ RequiredVars \subseteq env
        /\ bootLog = <<[fn |-> "main", result |-> "ok"]>>
        /\ subscriber = "main"
        /\ shutdownCount = 0 => provider = "main"

C5_Witness ==
    /\ bound
    /\ \E r \in Req : req[r].phase = "responded"

\* C6: over any sequence of bootstrap calls, the first call that reaches
\* the installation succeeds, every later one ends in the fatal error, and
\* the installed subscriber stays the first one.
Attempts == {i \in DOMAIN bootLog : bootLog[i].result \in {"ok", "subscriber_failed"}}

C6_InstalledAtMostOnce ==
    /\ \A i \in Attempts :
         (bootLog[i].result = "ok") <=> (\A j \in Attempts : j >= i)
    /\ \A i \in Attempts :
         (\A j \in Attempts : j >= i) => subscriber = bootLog[i].fn
    /\ Attempts = {} => subscriber = "none"

C6_Witness ==
    \E i, j \in Attempts :
        /\ i < j
        /\ bootLog[i].fn # bootLog[j].fn
        /\ bootLog[j].result = "subscriber_failed"
        /\ subscriber = bootLog[i].fn

\* C7: the warning is emitted right after the select completes, with the
\* pipeline still running and before the server drains.
C7_Inv ==
    /\ sigpc = "fired" => warnCount = 0
    /\ (Draining \/ Terminated) => warnCount = 1
    /\ shutdownCount > 0 => warnCount = 1

\* C7: the state conditions above always hold, and the step that emits the
\* warning is taken right after the select completed, with the pipeline
\* running before and after it and the server not yet draining.
C7_WarnBeforeDrain ==
    /\ []C7_Inv
    /\ [][warnCount' # warnCount =>
            /\ winner # "none"
            /\ sigpc = "fired"
            /\ provider # "none" /\ provider' # "none"
            /\ shutdownCount' = 0
            /\ ~Draining' /\ ~Terminated']_vars

C7_Witness ==
    /\ sigpc = "warned"
    /\ warnCount = 1
    /\ provider = "main"
    /\ InFlight # {}

\* C8: once an interrupt has been delivered the process eventually stops
\* accepting connections and eventually exits, and it never exits with the
\* flush of the pipeline shutdown still outstanding.
InterruptDelivered == delivered["ctrl_c"] >= 1

C8_EventuallyExits ==
    /\ InterruptDelivered ~> ~Running
    /\ InterruptDelivered ~> (pc \in Dead)
    /\ [](Terminated => (flushResult \in {"flushed", "timed_out"} /\ Buffered(spans) = {}))

C8_Witness ==
    /\ Terminated
    /\ InterruptDelivered
    /\ winner = "ctrl_c"
    /\ flushResult = "timed_out"

\* C9: the process never ends with an accepted request unfinished: each one
\* has slept its full delay and has its 200 response with the body, however
\* many requests ran beside it.
C9_NoRequestAborted ==
    /\ pc \in Dead => InFlight = {}
    /\ \A r \in Responded :
         /\ req[r].sleepLeft = 0
         /\ req[r].response = [status |-> 200, body |-> "<h1>Hi again world</h1>"]
    /\ \A r \in Req \ Responded : req[r].response = NoResponse

C9_Witness ==
    /\ Terminated
    /\ Responded = Req
    /\ "dropped" \in Fates

\* C10: no connection is ever accepted with a listener missing; a listener
\* that cannot be installed ends the process before the first accept.
WantedListeners == IF unix THEN {"ctrl_c", "terminate"} ELSE {"ctrl_c"}

C10_NoServiceWithoutListeners ==
    /\ (\E r \in Req : req[r].phase # "none") => listeners = WantedListeners
    /\ pc = "serving" => listeners = WantedListeners
    /\ (bound /\ pc = "panicked") =>
         (listeners # WantedListeners /\ \A r \in Req : req[r].phase = "none")

C10_Witness ==
    /\ pc = "panicked"
    /\ bound
    /\ unix
    /\ listeners = {"ctrl_c"}

=============================================================================
